---- MODULE Spec2Model ----
(***************************************************************************)
(* honggfuzz display.c: the status screen of a fuzzing campaign.           *)
(*                                                                         *)
(* display_display() reads the shared campaign counters with atomic        *)
(* fetch-and-add(0), derives the interval rate from the static             *)
(* prev_exec_cnt, and emits the report through display_put(), one          *)
(* vsnprintf()+write() per call.  Worker threads increment the counters    *)
(* concurrently.                                                           *)
(*                                                                         *)
(* size_t, uintptr_t and uint64_t values are 64-bit words (LP64), kept as  *)
(* four 16-bit limbs, least significant first, so that the unsigned        *)
(* arithmetic of the source wraps where the source's does.                 *)
(***************************************************************************)
EXTENDS Integers, Sequences, FiniteSets

(***************************************************************************)
(* Unsigned multi-limb arithmetic.                                         *)
(***************************************************************************)
WordBits == 64
LimbBits == WordBits \div 4
LimbBase == 2^LimbBits
NLimbs == WordBits \div LimbBits

Max2(a, b) == IF a >= b THEN a ELSE b
Min2(a, b) == IF a <= b THEN a ELSE b

\* The n-limb word of a small natural number (v < 2^31).
RECURSIVE LimbsFrom(_, _)
LimbsFrom(v, n) ==
    IF n = 0 THEN <<>> ELSE <<v % LimbBase>> \o LimbsFrom(v \div LimbBase, n - 1)
ToLimbs(v, n) == LimbsFrom(v, n)
U64(v) == ToLimbs(v, NLimbs)
Zero64 == U64(0)

\* Zero-extension (or truncation) of a word to n limbs.
RECURSIVE ExtFrom(_, _, _)
ExtFrom(a, i, n) ==
    IF i > n THEN <<>>
    ELSE <<IF i <= Len(a) THEN a[i] ELSE 0>> \o ExtFrom(a, i + 1, n)
Ext(a, n) == ExtFrom(a, 1, n)

\* The value of a word whose upper limbs are zero.
IsSmall(a) == \A i \in 2..Len(a) : a[i] = 0
Val(a) == a[1]

\* a + b modulo LimbBase^Len(a), limb by limb with carry c
RECURSIVE AddFrom(_, _, _, _)
AddFrom(a, b, i, c) ==
    IF i > Len(a) THEN <<>>
    ELSE LET t == a[i] + b[i] + c
         IN  <<t % LimbBase>> \o AddFrom(a, b, i + 1, t \div LimbBase)
AddW(a, b) == AddFrom(a, b, 1, 0)

\* a - b modulo LimbBase^Len(a): unsigned subtraction wraps
RECURSIVE SubFrom(_, _, _, _)
SubFrom(a, b, i, br) ==
    IF i > Len(a) THEN <<>>
    ELSE LET t == a[i] - b[i] - br
         IN  <<(t + LimbBase) % LimbBase>> \o SubFrom(a, b, i + 1, IF t < 0 THEN 1 ELSE 0)
SubW(a, b) == SubFrom(a, b, 1, 0)

\* a * m + c modulo LimbBase^Len(a), for a small multiplier m
RECURSIVE MulFrom(_, _, _, _)
MulFrom(a, m, i, c) ==
    IF i > Len(a) THEN <<>>
    ELSE LET t == a[i] * m + c
         IN  <<t % LimbBase>> \o MulFrom(a, m, i + 1, t \div LimbBase)
MulW(a, m) == MulFrom(a, m, 1, 0)

\* a >= b, a > b for words of the same length
GeW(a, b) ==
    LET D == {i \in 1..Len(a) : a[i] # b[i]}
    IN  IF D = {} THEN TRUE
        ELSE LET t == CHOOSE i \in D : \A j \in D : j <= i IN a[t] > b[t]
GtW(a, b) == a # b /\ GeW(a, b)

\* 2a + bit modulo LimbBase^Len(a)
Shl1W(a, bit) == MulFrom(a, 2, 1, bit)

\* floor(a / b) for b # 0, by binary long division, one limb of the
\* dividend (LimbBits bits, high to low) at a time; the remainder has one
\* limb more than the operands.  qr = <<quotient, remainder>>.
RECURSIVE DivBits(_, _, _, _)
DivBits(limb, bx, k, qr) ==
    IF k < 0 THEN qr
    ELSE LET r1 == Shl1W(qr[2], (limb \div (2^k)) % 2)
             ge == GeW(r1, bx)
             nx == <<Shl1W(qr[1], IF ge THEN 1 ELSE 0), IF ge THEN SubW(r1, bx) ELSE r1>>
         IN  IF nx[1] = nx[1] /\ nx[2] = nx[2] THEN DivBits(limb, bx, k - 1, nx) ELSE qr
RECURSIVE DivLimbs(_, _, _, _)
DivLimbs(a, bx, i, qr) ==
    IF i < 1 THEN qr[1]
    ELSE LET nx == DivBits(a[i], bx, LimbBits - 1, qr)
         IN  IF nx = nx THEN DivLimbs(a, bx, i - 1, nx) ELSE qr[1]
DivW(a, b) ==
    LET n == Len(a)
    IN  DivLimbs(a, Ext(b, n + 1), n, <<ToLimbs(0, n), ToLimbs(0, n + 1)>>)

(***************************************************************************)
(* Formatting.  A string is kept as its length; a number is formatted in   *)
(* decimal, so its formatted length is its number of decimal digits.       *)
(***************************************************************************)
RECURSIVE Pow10From(_, _)
Pow10From(w, k) == IF k = 0 THEN <<>> ELSE <<w>> \o Pow10From(MulW(w, 10), k - 1)
\* 10^1 .. 10^19, the powers of ten below 2^64
Pow10Tab == Pow10From(U64(10), 19)

\* length of "%zu", "%lu", "%d" (of a value >= 0) and "%" PRIu64
RECURSIVE Digits(_, _)
Digits(x, k) ==
    IF k > Len(Pow10Tab) THEN k
    ELSE IF GeW(x, Pow10Tab[k]) THEN Digits(x, k + 1) ELSE k
FmtU(x) == Digits(x, 1)
\* length of "%s"
FmtS(len) == len

RECURSIVE SumSeq(_)
SumSeq(q) == IF q = <<>> THEN 0 ELSE Head(q) + SumSeq(Tail(q))

\* The display_put() call sites of display_displayLocked(), in program
\* order, with the atomic reads that are statements or arguments of their
\* own ("rd...").
ProgramOrder ==
    << "clear", "header", "iterations", "outOf", "iterEol", "startTime",
       "inputFile", "fuzzedCmd", "remoteCmd", "threads", "execs", "inputFiles",
       "rdCrashArgs", "crashes", "timeouts",
       "dynSize", "dynIter", "covHdr",
       "instr", "branch", "btsBlock", "btsEdge", "iptBlock", "custom",
       "rdHitBB", "rdTotalBB", "hitBB", "iDso", "newBB", "sanCrashes",
       "footer" >>
Reads == {"rdCrashArgs", "rdHitBB", "rdTotalBB"}
Sites == {ProgramOrder[i] : i \in 1..Len(ProgramOrder)} \ Reads

\* Number of characters of each format string outside its conversions
\* (ESC_CLEAR is 7 characters, ESC_BOLD and ESC_RESET 4 each; "%%" is 1).
LitLen ==
    [ clear |-> 0, header |-> 67, iterations |-> 20, outOf |-> 19, iterEol |-> 1,
      startTime |-> 48, inputFile |-> 27, fuzzedCmd |-> 23, remoteCmd |-> 34,
      threads |-> 26, execs |-> 43, inputFiles |-> 24, crashes |-> 79,
      timeouts |-> 19, dynSize |-> 44, dynIter |-> 69, covHdr |-> 16,
      instr |-> 36, branch |-> 36, btsBlock |-> 32, btsEdge |-> 33,
      iptBlock |-> 31, custom |-> 36, hitBB |-> 42, iDso |-> 49, newBB |-> 51,
      sanCrashes |-> 29, footer |-> 67 ]
EscClearLen == 7

\* vsnprintf(buf, sizeof(buf), fmt, args): the length the whole formatted
\* text has, whether or not it fits the buffer.  lens are the lengths of the
\* formatted arguments.
vsnprintf(fmt, lens) == LitLen[fmt] + SumSeq(lens)

(***************************************************************************)
(* State.                                                                  *)
(***************************************************************************)
VARIABLES
    hfuzz,          \* honggfuzz_t: configuration and the shared counters
    now,            \* time(NULL) - hfuzz->timeStart, in seconds
    prev_exec_cnt,  \* static size_t prev_exec_cnt of display_displayLocked
    pc,             \* position of the display thread ("idle": not in a call)
    loc,            \* locals of display_displayLocked
    frame,          \* the write() calls issued by the current (last) call
    wrBad,          \* some write() of the current call failed or was partial
    incs,           \* history: increments made by the workers, per counter
    calls,          \* history: display_display() calls started
    hist            \* history: per call, the raw count read, the count and rate shown

vars == <<hfuzz, now, prev_exec_cnt, pc, loc, frame, wrBad, incs, calls, hist>>

Counters ==
    { "mutationsCnt", "crashesCnt", "uniqueCrashesCnt", "blCrashesCnt",
      "verifiedCrashesCnt", "timeoutedCnt", "dynFileIterExpire",
      "hwCnts_cpuInstrCnt", "hwCnts_cpuBranchCnt", "hwCnts_cpuBtsBlockCnt",
      "hwCnts_cpuBtsEdgeCnt", "hwCnts_cpuIptBlockCnt", "hwCnts_customCnt",
      "sanCovCnts_hitBBCnt", "sanCovCnts_totalBBCnt", "sanCovCnts_iDsoCnt",
      "sanCovCnts_newBBCnt", "sanCovCnts_crashesCnt" }

\* dynFileMethod is a bit mask of dynFileMethod_t flags, kept as the set of
\* the flags whose bit is set; _HF_DYNFILE_NONE is the empty mask.
Methods ==
    { "INSTR_COUNT", "BRANCH_COUNT", "BTS_BLOCK", "BTS_EDGE", "IPT_BLOCK", "CUSTOM" }
HF_DYNFILE_NONE == {}
HF_MAX_DYNFILE_ITER == 8192
\* util_getLocalTime("%F %T", ...): the length of "YYYY-MM-DD hh:mm:ss"
util_getLocalTime == 19

BufSize == 1024 * 4


(***************************************************************************)
(* Bounds of the model.                                                    *)
(***************************************************************************)
MaxCalls == 3       \* display_display() calls in a run of Spec
MaxMut == 3         \* worker increments of mutationsCnt in a run of Spec
MaxStat == 2        \* worker increments of any counters in a run of SpecConc

(***************************************************************************)
(* The functions of display.c.                                             *)
(***************************************************************************)
\* (mutation) the read adds one instead of zero
sync_fetch_and_add_one(v, add) == [ret |-> v, mem |-> AddW(v, U64(1))]

\* __sync_fetch_and_add(&x, add): returns the old value, stores old + add
sync_fetch_and_add(v, add) == [ret |-> v, mem |-> AddW(v, add)]

\* (mutation) the comparison with the cap is off by one
ClampCntLate(cnt, max) ==
    IF GtW(max, Zero64) /\ GtW(cnt, AddW(max, U64(1))) THEN max ELSE cnt

\* lines 71-73: the count shown is capped to mutationsMax when one is set
ClampCnt(cnt, max) == IF GtW(max, Zero64) /\ GtW(cnt, max) THEN max ELSE cnt

\* (mutation) the rate is the count itself, not the difference
ExecPerSecTotal(curr, prev) == curr

\* line 75: uintptr_t exec_per_sec = curr_exec_cnt - prev_exec_cnt
ExecPerSec(curr, prev) == SubW(curr, prev)

\* (mutation) the count stored for the next call is the count before clamping
NextPrevRaw(curr, raw) == raw

\* line 76: prev_exec_cnt = curr_exec_cnt, the count after clamping (raw is
\* the count as read)
NextPrev(curr, raw) == curr

\* line 101: elapsed ? (curr_exec_cnt / elapsed) : 0
AvgPerSec(curr, elapsed) == IF elapsed # 0 THEN DivW(curr, U64(elapsed)) ELSE Zero64

\* line 157: uint8_t covPer = totalBB ? ((hitBB * 100) / totalBB) : 0
\* (a 64-bit product and quotient, converted to 8 bits)
CovPer(hitBB, totalBB) ==
    IF totalBB # Zero64 THEN DivW(MulW(hitBB, 100), totalBB)[1] % (2^8) ELSE 0

\* (mutation) the attached-process line is shown for any non-zero pid
ShowRemoteCmdNonZero(h) == h.pid # 0
\* (mutation) the dynamic-file section is shown for the hardware counters only
ShowDynFileHwOnly(h) == h.dynFileMethod # HF_DYNFILE_NONE

\* The conditions of the optional sections.
\* line 82
ShowOutOf(h) == h.mutationsMax # Zero64
\* line 94
ShowRemoteCmd(h) == h.pid > 0
\* line 104
ShowInputFiles(h) == h.flipRate = 0 /\ h.useVerifier
\* line 118
ShowDynFile(h) == h.dynFileMethod # HF_DYNFILE_NONE \/ h.useSanCov
\* lines 128, 132, 136, 140, 144, 148: dynFileMethod & m
HasMethod(h, m) == h.dynFileMethod \cap {m} # {}
\* line 154
ShowSanCov(h) == h.useSanCov

MethodOf ==
    [ instr |-> "INSTR_COUNT", branch |-> "BRANCH_COUNT", btsBlock |-> "BTS_BLOCK",
      btsEdge |-> "BTS_EDGE", iptBlock |-> "IPT_BLOCK", custom |-> "CUSTOM" ]

\* Whether control reaches position p of the program order.
Reaches(p, h) ==
    CASE p = "outOf" -> ShowOutOf(h)
      [] p = "remoteCmd" -> ShowRemoteCmd(h)
      [] p = "inputFiles" -> ShowInputFiles(h)
      [] p \in {"dynSize", "dynIter", "covHdr"} -> ShowDynFile(h)
      [] p \in DOMAIN MethodOf -> HasMethod(h, MethodOf[p])
      [] p \in {"rdHitBB", "rdTotalBB", "hitBB", "iDso", "newBB", "sanCrashes"} -> ShowSanCov(h)
      [] OTHER -> TRUE

IndexOf(p) == CHOOSE i \in 1..Len(ProgramOrder) : ProgramOrder[i] = p

\* The position control reaches after position p: the next one in program
\* order whose condition holds; after the last one the call returns.
RECURSIVE FirstFrom(_, _)
FirstFrom(j, h) ==
    IF j > Len(ProgramOrder) THEN "idle"
    ELSE IF Reaches(ProgramOrder[j], h) THEN ProgramOrder[j]
    ELSE FirstFrom(j + 1, h)
Succ(p, h) == FirstFrom(IndexOf(p) + 1, h)

\* write(STDOUT_FILENO, buf, n): what the call returns, by outcome
WriteOutcomes == {"full", "partial", "fail"}
write(o, n) == CASE o = "full" -> n [] o = "partial" -> n \div 2 [] o = "fail" -> -1

\* (mutation) a text of one character is taken for an empty one
display_put_short(fmt, vals, lens, o) ==
    LET ret == vsnprintf(fmt, lens)
        w == [site |-> fmt, n |-> ret, text |-> Min2(ret, BufSize - 1), vals |-> vals]
    IN  IF ret <= 1 THEN <<>> ELSE <<w>>

\* display_put(fmt, ...): the write() calls it issues.  n is the count
\* passed to write(); text is how many of these bytes are formatted text
\* (vsnprintf stores at most sizeof(buf) - 1 characters and a NUL; bytes
\* from there on, and any past the end of buf, are not text).
display_put(fmt, vals, lens, o) ==
    LET ret == vsnprintf(fmt, lens)
        w == [site |-> fmt, n |-> ret, text |-> Min2(ret, BufSize - 1), vals |-> vals]
    IN  IF ret <= 0 THEN <<>>
        ELSE IF write(o, ret) = -1 THEN <<w>>
        ELSE <<w>>

\* (mutation) a failed write ends the whole call
AfterPutAbort(p, h, o) == IF o = "fail" THEN "idle" ELSE Succ(p, h)

\* lines 52-58: display_put returns to its caller whatever vsnprintf() and
\* write() returned; the caller goes on with the statement after p.
AfterPut(p, h, o) == Succ(p, h)

(***************************************************************************)
(* Initial states.                                                         *)
(***************************************************************************)
LocInit == [curr_exec_cnt |-> Zero64, exec_per_sec |-> Zero64, elapsed |-> 0,
            args |-> <<>>, hitBB |-> Zero64, totalBB |-> Zero64]

\* A campaign that has just started: all counters zero, no feedback
\* mechanism, no cap.  Strings are kept as their lengths.
BaseHfuzz ==
    [ mutationsCnt |-> Zero64, crashesCnt |-> Zero64, uniqueCrashesCnt |-> Zero64,
      blCrashesCnt |-> Zero64, verifiedCrashesCnt |-> Zero64, timeoutedCnt |-> Zero64,
      dynFileIterExpire |-> Zero64,
      hwCnts_cpuInstrCnt |-> Zero64, hwCnts_cpuBranchCnt |-> Zero64,
      hwCnts_cpuBtsBlockCnt |-> Zero64, hwCnts_cpuBtsEdgeCnt |-> Zero64,
      hwCnts_cpuIptBlockCnt |-> Zero64, hwCnts_customCnt |-> Zero64,
      sanCovCnts_hitBBCnt |-> Zero64, sanCovCnts_totalBBCnt |-> Zero64,
      sanCovCnts_iDsoCnt |-> Zero64, sanCovCnts_newBBCnt |-> Zero64,
      sanCovCnts_crashesCnt |-> Zero64,
      mutationsMax |-> Zero64, inputFile |-> 6, cmdline_txt |-> 12,
      pid |-> 0, pidCmd |-> 0, threadsMax |-> U64(2),
      flipRate |-> 1, useVerifier |-> FALSE, fileCnt |-> U64(1),
      dynFileMethod |-> HF_DYNFILE_NONE, useSanCov |-> FALSE,
      dynamicFileBestSz |-> U64(1), maxFileSz |-> U64(1048576) ]

\* The same campaign with every optional section enabled.
FullHfuzz ==
    [BaseHfuzz EXCEPT !.pid = 1, !.pidCmd = 4, !.flipRate = 0, !.useVerifier = TRUE,
                      !.dynFileMethod = Methods, !.useSanCov = TRUE]

InitRest ==
    /\ prev_exec_cnt = Zero64
    /\ pc = "idle"
    /\ loc = LocInit
    /\ frame = <<>>
    /\ wrBad = FALSE
    /\ incs = [c \in Counters |-> 0]
    /\ calls = 0
    /\ hist = <<>>


(***************************************************************************)
(* display_display(): one action per statement.                            *)
(***************************************************************************)
\* A display_put() call at position p, and the move to the next position.
Put(p, vals, lens) ==
    /\ pc = p
    /\ \E o \in WriteOutcomes :
          LET ret == vsnprintf(p, lens)
          IN  /\ frame' = frame \o display_put(p, vals, lens, o)
              /\ wrBad' = (wrBad \/ (ret > 0 /\ write(o, ret) # ret))
              /\ pc' = AfterPut(p, hfuzz, o)

\* A display_put() call whose one argument is an atomic read of counter c.
PutCounter(p, c) ==
    LET r == sync_fetch_and_add(hfuzz[c], Zero64)
    IN  /\ Put(p, <<r.ret>>, <<FmtU(r.ret)>>)
        /\ hfuzz' = [hfuzz EXCEPT ![c] = r.mem]
        /\ UNCHANGED <<now, prev_exec_cnt, loc, incs, calls, hist>>

\* A display_put() call that reads no shared counter.
PutLocal(p, vals, lens) ==
    /\ Put(p, vals, lens)
    /\ UNCHANGED <<hfuzz, now, prev_exec_cnt, loc, incs, calls, hist>>

\* lines 170-173 and 62: entry, elapsed = time(NULL) - hfuzz->timeStart
Enter ==
    /\ pc = "idle"
    /\ pc' = "rate"
    /\ loc' = [LocInit EXCEPT !.elapsed = now]
    /\ frame' = <<>>
    /\ wrBad' = FALSE
    /\ calls' = calls + 1
    /\ UNCHANGED <<hfuzz, now, prev_exec_cnt, incs, hist>>

\* the periodic call of a campaign
display_display == calls < MaxCalls /\ Enter

\* a single call
display_display_once == calls = 0 /\ Enter

\* lines 64-76: read the iteration count, clamp it, derive the interval
\* rate and store the count for the next call
ReadExecCnt ==
    /\ pc = "rate"
    /\ LET r == sync_fetch_and_add(hfuzz.mutationsCnt, Zero64)
           curr == ClampCnt(r.ret, hfuzz.mutationsMax)
           rate == ExecPerSec(curr, prev_exec_cnt)
       IN  /\ hfuzz' = [hfuzz EXCEPT !.mutationsCnt = r.mem]
           /\ loc' = [loc EXCEPT !.curr_exec_cnt = curr, !.exec_per_sec = rate]
           /\ prev_exec_cnt' = NextPrev(curr, r.ret)
           /\ hist' = Append(hist, [raw |-> r.ret, shown |-> curr, rate |-> rate])
    /\ pc' = "clear"
    /\ UNCHANGED <<now, frame, wrBad, incs, calls>>

\* line 78
PutClear == PutLocal("clear", <<>>, <<FmtS(EscClearLen)>>)
\* line 79
PutHeader == PutLocal("header", <<>>, <<>>)
\* line 81
PutIterations == PutLocal("iterations", <<loc.curr_exec_cnt>>, <<FmtU(loc.curr_exec_cnt)>>)
\* lines 82-84
PutOutOf == PutLocal("outOf", <<hfuzz.mutationsMax>>, <<FmtU(hfuzz.mutationsMax)>>)
\* line 85
PutIterEol == PutLocal("iterEol", <<>>, <<>>)
\* lines 87-90
PutStartTime ==
    PutLocal("startTime", <<U64(loc.elapsed)>>, <<FmtS(util_getLocalTime), FmtU(U64(loc.elapsed))>>)
\* line 92
PutInputFile == PutLocal("inputFile", <<>>, <<FmtS(hfuzz.inputFile)>>)
\* line 93
PutFuzzedCmd == PutLocal("fuzzedCmd", <<>>, <<FmtS(hfuzz.cmdline_txt)>>)
\* lines 94-97
PutRemoteCmd ==
    PutLocal("remoteCmd", <<U64(hfuzz.pid)>>, <<FmtU(U64(hfuzz.pid)), FmtS(hfuzz.pidCmd)>>)
\* line 99
PutThreads == PutLocal("threads", <<hfuzz.threadsMax>>, <<FmtU(hfuzz.threadsMax)>>)
\* lines 100-101
PutExecs ==
    LET avg == AvgPerSec(loc.curr_exec_cnt, loc.elapsed)
    IN  PutLocal("execs", <<loc.exec_per_sec, avg>>, <<FmtU(loc.exec_per_sec), FmtU(avg)>>)
\* lines 104-106
PutInputFiles == PutLocal("inputFiles", <<hfuzz.fileCnt>>, <<FmtU(hfuzz.fileCnt)>>)

\* lines 110-113: the four atomic reads that are the arguments of the
\* "Crashes:" line, each a step of its own; C leaves the order in which
\* arguments are evaluated open, so they are read in any order
CrashArgs == {"crashesCnt", "uniqueCrashesCnt", "blCrashesCnt", "verifiedCrashesCnt"}
ReadCrashArg ==
    /\ pc = "rdCrashArgs"
    /\ \E c \in CrashArgs \ DOMAIN loc.args :
          LET r == sync_fetch_and_add(hfuzz[c], Zero64)
              got == [x \in (DOMAIN loc.args) \cup {c} |-> IF x = c THEN r.ret ELSE loc.args[x]]
          IN  /\ hfuzz' = [hfuzz EXCEPT ![c] = r.mem]
              /\ loc' = [loc EXCEPT !.args = got]
              /\ pc' = IF DOMAIN got = CrashArgs THEN Succ(pc, hfuzz) ELSE pc
    /\ UNCHANGED <<now, prev_exec_cnt, frame, wrBad, incs, calls, hist>>
\* lines 108-113
PutCrashes ==
    LET a == <<loc.args["crashesCnt"], loc.args["uniqueCrashesCnt"],
               loc.args["blCrashesCnt"], loc.args["verifiedCrashesCnt"]>>
    IN  PutLocal("crashes", a, <<FmtU(a[1]), FmtU(a[2]), FmtU(a[3]), FmtU(a[4])>>)
\* lines 114-115
PutTimeouts == PutCounter("timeouts", "timeoutedCnt")

\* lines 119-120
PutDynSize ==
    PutLocal("dynSize", <<hfuzz.dynamicFileBestSz, hfuzz.maxFileSz>>,
             <<FmtU(hfuzz.dynamicFileBestSz), FmtU(hfuzz.maxFileSz)>>)
\* lines 121-123
PutDynIter ==
    LET r == sync_fetch_and_add(hfuzz.dynFileIterExpire, Zero64)
    IN  /\ Put("dynIter", <<r.ret, U64(HF_MAX_DYNFILE_ITER)>>,
               <<FmtU(r.ret), FmtU(U64(HF_MAX_DYNFILE_ITER))>>)
        /\ hfuzz' = [hfuzz EXCEPT !.dynFileIterExpire = r.mem]
        /\ UNCHANGED <<now, prev_exec_cnt, loc, incs, calls, hist>>
\* line 124
PutCovHdr == PutLocal("covHdr", <<>>, <<>>)

\* lines 128-131
PutInstr == PutCounter("instr", "hwCnts_cpuInstrCnt")
\* lines 132-135
PutBranch == PutCounter("branch", "hwCnts_cpuBranchCnt")
\* lines 136-139
PutBtsBlock == PutCounter("btsBlock", "hwCnts_cpuBtsBlockCnt")
\* lines 140-143
PutBtsEdge == PutCounter("btsEdge", "hwCnts_cpuBtsEdgeCnt")
\* lines 144-147
PutIptBlock == PutCounter("iptBlock", "hwCnts_cpuIptBlockCnt")
\* lines 148-151
PutCustom == PutCounter("custom", "hwCnts_customCnt")

\* line 155
ReadHitBB ==
    /\ pc = "rdHitBB"
    /\ LET r == sync_fetch_and_add(hfuzz.sanCovCnts_hitBBCnt, Zero64)
       IN  /\ hfuzz' = [hfuzz EXCEPT !.sanCovCnts_hitBBCnt = r.mem]
           /\ loc' = [loc EXCEPT !.hitBB = r.ret]
    /\ pc' = Succ(pc, hfuzz)
    /\ UNCHANGED <<now, prev_exec_cnt, frame, wrBad, incs, calls, hist>>
\* line 156
ReadTotalBB ==
    /\ pc = "rdTotalBB"
    /\ LET r == sync_fetch_and_add(hfuzz.sanCovCnts_totalBBCnt, Zero64)
       IN  /\ hfuzz' = [hfuzz EXCEPT !.sanCovCnts_totalBBCnt = r.mem]
           /\ loc' = [loc EXCEPT !.totalBB = r.ret]
    /\ pc' = Succ(pc, hfuzz)
    /\ UNCHANGED <<now, prev_exec_cnt, frame, wrBad, incs, calls, hist>>
\* lines 157-159
PutHitBB ==
    LET covPer == CovPer(loc.hitBB, loc.totalBB)
    IN  PutLocal("hitBB", <<loc.hitBB, loc.totalBB, U64(covPer)>>,
                 <<FmtU(loc.hitBB), FmtU(U64(covPer))>>)
\* lines 160-161
PutIDso == PutCounter("iDso", "sanCovCnts_iDsoCnt")
\* lines 162-163
PutNewBB == PutCounter("newBB", "sanCovCnts_newBBCnt")
\* lines 164-165
PutSanCrashes == PutCounter("sanCrashes", "sanCovCnts_crashesCnt")
\* line 167, and the return
PutFooter == PutLocal("footer", <<>>, <<>>)

\* the statements of display_displayLocked
Body ==
    \/ ReadExecCnt
    \/ PutClear \/ PutHeader \/ PutIterations \/ PutOutOf \/ PutIterEol
    \/ PutStartTime \/ PutInputFile \/ PutFuzzedCmd \/ PutRemoteCmd
    \/ PutThreads \/ PutExecs \/ PutInputFiles
    \/ ReadCrashArg \/ PutCrashes \/ PutTimeouts
    \/ PutDynSize \/ PutDynIter \/ PutCovHdr
    \/ PutInstr \/ PutBranch \/ PutBtsBlock \/ PutBtsEdge \/ PutIptBlock \/ PutCustom
    \/ ReadHitBB \/ ReadTotalBB \/ PutHitBB \/ PutIDso \/ PutNewBB \/ PutSanCrashes
    \/ PutFooter

(***************************************************************************)
(* The worker threads.                                                     *)
(***************************************************************************)
\* lines 65-70: the threads increase the mutation counter unconditionally,
\* also past mutationsMax
WorkerMutation ==
    /\ incs.mutationsCnt < MaxMut
    /\ hfuzz' = [hfuzz EXCEPT !.mutationsCnt = AddW(@, U64(1))]
    /\ incs' = [incs EXCEPT !.mutationsCnt = @ + 1]
    /\ UNCHANGED <<now, prev_exec_cnt, pc, loc, frame, wrBad, calls, hist>>

RECURSIVE SumIncs(_)
SumIncs(S) ==
    IF S = {} THEN 0
    ELSE LET c == CHOOSE x \in S : TRUE IN incs[c] + SumIncs(S \ {c})

\* the threads update every counter of the campaign, each with an atomic
\* increment
WorkerStat ==
    /\ SumIncs(Counters) < MaxStat
    /\ \E c \in Counters :
          /\ hfuzz' = [hfuzz EXCEPT ![c] = AddW(@, U64(1))]
          /\ incs' = [incs EXCEPT ![c] = @ + 1]
    /\ UNCHANGED <<now, prev_exec_cnt, pc, loc, frame, wrBad, calls, hist>>

(***************************************************************************)
(* Specifications.                                                         *)
(***************************************************************************)
\* Spec: a campaign with an iteration counter that only grows, displayed
\* MaxCalls times; with and without a cap, with and without the optional
\* sections.
CapInputs == {0, 2}
Init ==
    /\ hfuzz \in {[h EXCEPT !.mutationsMax = U64(m)] :
                    h \in {BaseHfuzz, FullHfuzz}, m \in CapInputs}
    /\ now = 2
    /\ InitRest
Next == display_display \/ Body \/ WorkerMutation
Spec == Init /\ [][Next]_vars

\* SpecConc: one call, racing with workers that update every counter.
ConcHfuzz == [FullHfuzz EXCEPT !.mutationsMax = U64(1)]
InitConc ==
    /\ hfuzz = ConcHfuzz
    /\ now = 2
    /\ InitRest
NextConc == display_display_once \/ Body \/ WorkerStat
SpecConc == InitConc /\ [][NextConc]_vars

\* SpecFrame: one call, for every combination of the feature flags.
InitFrame ==
    /\ hfuzz \in {[BaseHfuzz EXCEPT !.dynFileMethod = d, !.useSanCov = s, !.pid = p,
                                     !.pidCmd = 4, !.flipRate = f, !.useVerifier = v,
                                     !.mutationsMax = U64(2)] :
                    d \in SUBSET Methods, s \in BOOLEAN, p \in {-1, 0, 1},
                    f \in {0, 1}, v \in BOOLEAN}
    /\ now = 2
    /\ InitRest
NextFrame == display_display_once \/ Body
SpecFrame == InitFrame /\ [][NextFrame]_vars

\* SpecInputs: one call, for a range of counter values and string lengths.
Two63 == <<0, 0, 0, 2^15>>
Max64 == <<LimbBase - 1, LimbBase - 1, LimbBase - 1, LimbBase - 1>>
CovInputs == {U64(0), U64(1), U64(3), U64(50), U64(200), Two63, Max64}
StrInputs == {0, 12, BufSize - 60, BufSize + 904}
InitInputs ==
    /\ hfuzz \in {[FullHfuzz EXCEPT !.sanCovCnts_hitBBCnt = hit,
                                     !.sanCovCnts_totalBBCnt = tot,
                                     !.cmdline_txt = len,
                                     !.mutationsMax = U64(1000),
                                     !.mutationsCnt = U64(1200)] :
                    hit \in CovInputs, tot \in CovInputs, len \in StrInputs}
    /\ now \in {0, 2}
    /\ InitRest
SpecInputs == InitInputs /\ [][NextFrame]_vars


(***************************************************************************)
(* Properties.                                                             *)
(***************************************************************************)
\* a call has returned; frame holds everything it wrote
Returned == pc = "idle" /\ calls > 0

HasLine(p) == \E i \in 1..Len(frame) : frame[i].site = p
LineOf(p) == frame[CHOOSE i \in 1..Len(frame) : frame[i].site = p]
FrameSites == {frame[i].site : i \in 1..Len(frame)}

\* min(c, cap) when a cap is set and c otherwise, over the naturals
ClampN(c, cap) == IF cap > 0 THEN Min2(c, cap) ELSE c
CapN == Val(hfuzz.mutationsMax)

\* C1: for consecutive calls that read raw counts c1 <= c2, the rate of the
\* second is clamp(c2) - clamp(c1); the first call ever made reports
\* clamp(c1), the previous count being 0 before it; every call stores its
\* clamped count as the previous count; the rate shown on the "Execs per
\* second" line is this rate.
C1_RateIsClampedDelta ==
    /\ IsSmall(hfuzz.mutationsMax)
    /\ \A i \in 1..Len(hist) :
          /\ IsSmall(hist[i].raw)
          /\ LET c2 == Val(hist[i].raw)
                 c1 == IF i = 1 THEN 0 ELSE Val(hist[i - 1].raw)
                 p1 == IF i = 1 THEN 0 ELSE ClampN(c1, CapN)
             IN  c1 <= c2 => hist[i].rate = U64(ClampN(c2, CapN) - p1)
    /\ prev_exec_cnt = IF hist = <<>> THEN Zero64
                       ELSE U64(ClampN(Val(hist[Len(hist)].raw), CapN))
    /\ HasLine("execs") => LineOf("execs").vals[1] = hist[Len(hist)].rate

\* C1 witness: a second call, whose raw count went past the cap since the
\* first, has shown its rate
C1_Witness ==
    /\ Len(hist) = 2
    /\ CapN = 2
    /\ Val(hist[1].raw) = 1
    /\ Val(hist[2].raw) = 3
    /\ HasLine("execs")
    /\ LineOf("execs").vals[1] = U64(1)

\* C2: with a cap configured, the iteration count displayed is
\* min(raw count, cap), whatever the raw count; the cap is shown exactly
\* when it is non-zero; the shared counter keeps the value the workers
\* gave it.
C2_DisplayedCountClamped ==
    /\ (HasLine("iterations") /\ CapN > 0) =>
          /\ LineOf("iterations").vals[1] = U64(Min2(Val(hist[Len(hist)].raw), CapN))
          /\ ~GtW(LineOf("iterations").vals[1], hfuzz.mutationsMax)
    /\ HasLine("iterEol") => (HasLine("outOf") <=> CapN # 0)
    /\ HasLine("outOf") => LineOf("outOf").vals[1] = hfuzz.mutationsMax
    /\ hfuzz.mutationsCnt = U64(incs.mutationsCnt)

\* C2 witness: the raw counter is past the cap, the call shows the cap and
\* the counter is still past it when the call has returned
C2_Witness ==
    /\ Returned
    /\ CapN = 2
    /\ Val(hist[Len(hist)].raw) = 3
    /\ hfuzz.mutationsCnt = U64(3)
    /\ LineOf("iterations").vals[1] = U64(2)
    /\ HasLine("outOf")

RECURSIVE SumRates(_)
SumRates(h) == IF h = <<>> THEN 0 ELSE Val(h[Len(h)].rate) + SumRates(SubSeq(h, 1, Len(h) - 1))

\* C10: with a raw counter that only grows and a constant cap, the counts
\* displayed by successive calls are non-decreasing, no rate is a wrapped
\* difference, and the rates reported so far add up to the count displayed
\* last, which is the stored previous count.
C10_RatesSumToDisplayedCount ==
    /\ \A i \in 1..Len(hist) :
          /\ IsSmall(hist[i].shown)
          /\ IsSmall(hist[i].rate)
          /\ i > 1 => /\ Val(hist[i - 1].shown) <= Val(hist[i].shown)
                      /\ Val(hist[i].rate) = Val(hist[i].shown) - Val(hist[i - 1].shown)
    /\ hist # <<>> =>
          /\ SumRates(hist) = Val(hist[Len(hist)].shown)
          /\ prev_exec_cnt = hist[Len(hist)].shown
    /\ hist = <<>> => prev_exec_cnt = Zero64

\* C10 witness: three calls, the counter past the cap from the second on
C10_Witness ==
    /\ Len(hist) = 3
    /\ CapN = 2
    /\ Val(hist[1].raw) = 1
    /\ Val(hist[2].raw) = 3
    /\ Val(hist[3].raw) = 3
    /\ Val(hist[3].rate) = 0
    /\ Returned


\* C3: a call never changes campaign state: under every interleaving with
\* the workers, each counter holds exactly the workers' increments, and the
\* configuration is the initial one; the call's writes to memory go to
\* prev_exec_cnt alone.
C3_CampaignStateUntouched ==
    /\ \A c \in Counters : hfuzz[c] = U64(incs[c])
    /\ \A f \in (DOMAIN hfuzz) \ Counters : hfuzz[f] = ConcHfuzz[f]

\* C3 witness: a call about to return, during which workers incremented
\* counters it had already read
C3_Witness ==
    /\ pc = "footer"
    /\ hist[1].raw = Zero64
    /\ hfuzz.mutationsCnt = U64(1)
    /\ LineOf("crashes").vals[1] = Zero64
    /\ hfuzz.crashesCnt = U64(1)
    /\ prev_exec_cnt = Zero64

\* the display_put() calls a call makes, from the configuration
B2N(b) == IF b THEN 1 ELSE 0
NumPuts(h) ==
    12 + B2N(h.mutationsMax # Zero64) + B2N(h.pid > 0)
       + B2N(h.flipRate = 0 /\ h.useVerifier)
       + 3 * B2N(h.dynFileMethod # {} \/ h.useSanCov)
       + Cardinality(h.dynFileMethod) + 4 * B2N(h.useSanCov)

\* C7: whatever each write() returned, the call does not retry or abort: a
\* call some of whose writes failed or were partial has, when it returns,
\* issued one write per display_put() through the footer, and leaves the
\* previous count at its clamped count and the counters as the workers
\* made them.
C7_WriteFailuresAbsorbed ==
    (Returned /\ wrBad) =>
        /\ Len(frame) = NumPuts(hfuzz)
        /\ frame[Len(frame)].site = "footer"
        /\ Cardinality(FrameSites) = Len(frame)
        /\ prev_exec_cnt = U64(ClampN(Val(hist[Len(hist)].raw), CapN))
        /\ \A c \in Counters : hfuzz[c] = U64(incs[c])

\* C7 witness: a second call with every optional section and a failed or
\* partial write has returned, its raw count past the cap
C7_Witness ==
    /\ Returned
    /\ wrBad
    /\ Len(hist) = 2
    /\ hist[2].raw = U64(3)
    /\ prev_exec_cnt = U64(2)
    /\ Len(frame) = 28

C8_SectionsFollowFlags ==
    Returned =>
        /\ \A p \in {"dynSize", "dynIter", "covHdr"} :
              p \in FrameSites <=> (hfuzz.dynFileMethod # {} \/ hfuzz.useSanCov)
        /\ "instr" \in FrameSites <=> "INSTR_COUNT" \in hfuzz.dynFileMethod
        /\ "branch" \in FrameSites <=> "BRANCH_COUNT" \in hfuzz.dynFileMethod
        /\ "btsBlock" \in FrameSites <=> "BTS_BLOCK" \in hfuzz.dynFileMethod
        /\ "btsEdge" \in FrameSites <=> "BTS_EDGE" \in hfuzz.dynFileMethod
        /\ "iptBlock" \in FrameSites <=> "IPT_BLOCK" \in hfuzz.dynFileMethod
        /\ "custom" \in FrameSites <=> "CUSTOM" \in hfuzz.dynFileMethod
        /\ \A p \in {"hitBB", "iDso", "newBB", "sanCrashes"} :
              p \in FrameSites <=> hfuzz.useSanCov
        /\ (hfuzz.dynFileMethod = {} /\ ~hfuzz.useSanCov) =>
              FrameSites \subseteq
                  {"clear", "header", "iterations", "outOf", "iterEol", "startTime",
                   "inputFile", "fuzzedCmd", "remoteCmd", "threads", "execs",
                   "inputFiles", "crashes", "timeouts", "footer"}

\* C8 witness: software coverage alone shows the dynamic-file section and
\* no hardware counter line
C8_Witness ==
    /\ Returned
    /\ hfuzz.dynFileMethod = {}
    /\ hfuzz.useSanCov
    /\ {"dynSize", "dynIter", "covHdr", "hitBB"} \subseteq FrameSites
    /\ "branch" \notin FrameSites

\* the section of the report each write belongs to, in the order of the
\* report (0: the clear sequence)
SectionOf ==
    [ clear |-> 0, header |-> 1, iterations |-> 2, outOf |-> 2, iterEol |-> 2,
      startTime |-> 3, inputFile |-> 4, fuzzedCmd |-> 4, remoteCmd |-> 4,
      threads |-> 5, execs |-> 5, inputFiles |-> 6, crashes |-> 7, timeouts |-> 7,
      dynSize |-> 8, dynIter |-> 8, covHdr |-> 8,
      instr |-> 9, branch |-> 9, btsBlock |-> 9, btsEdge |-> 9, iptBlock |-> 9,
      custom |-> 9, hitBB |-> 10, iDso |-> 10, newBB |-> 10, sanCrashes |-> 10,
      footer |-> 11 ]

\* C9: the sections emitted appear in the fixed order, for every
\* combination of flags: no section precedes one listed before it, the
\* header is first and the footer last; the attached-process line is there
\* iff pid > 0, the input file count iff flipRate is 0 and the verifier is
\* enabled.
C9_SectionOrder ==
    /\ \A i \in 1..Len(frame) : \A j \in 1..Len(frame) :
          i < j => SectionOf[frame[i].site] <= SectionOf[frame[j].site]
    /\ Len(frame) >= 2 => (frame[1].site = "clear" /\ frame[2].site = "header")
    /\ \A i \in 3..Len(frame) : frame[i].site # "header"
    /\ \A i \in 1..(Len(frame) - 1) : frame[i].site # "footer"
    /\ Returned =>
          /\ frame[Len(frame)].site = "footer"
          /\ {1, 2, 3, 4, 5, 7, 11} \subseteq {SectionOf[p] : p \in FrameSites}
          /\ "remoteCmd" \in FrameSites <=> hfuzz.pid > 0
          /\ "inputFiles" \in FrameSites <=> (hfuzz.flipRate = 0 /\ hfuzz.useVerifier)

\* C9 witness: a returned call with the input file count and without the
\* attached-process line, the pid being negative
C9_Witness ==
    /\ Returned
    /\ hfuzz.pid < 0
    /\ "inputFiles" \in FrameSites
    /\ "remoteCmd" \notin FrameSites
    /\ "custom" \in FrameSites
    /\ "hitBB" \in FrameSites

\* C5 (as stated): the length passed to write() never exceeds the buffer,
\* and the bytes written are a prefix of the formatted text.
C5_WriteWithinBuffer ==
    \A i \in 1..Len(frame) : frame[i].n <= BufSize /\ frame[i].text = frame[i].n

\* floor(hit * 100 / total) over the naturals, as a five-limb word
ExactPct(hit, total) == DivW(MulW(Ext(hit, NLimbs + 1), 100), Ext(total, NLimbs + 1))

\* C6 (as stated): the percentage displayed is 0 when the total read is 0,
\* otherwise floor(hit * 100 / total); it is within [0, 100] when
\* hit <= total.
C6_CoveragePercent ==
    HasLine("hitBB") =>
        LET hit == LineOf("hitBB").vals[1]
            total == LineOf("hitBB").vals[2]
            shown == LineOf("hitBB").vals[3]
        IN  /\ total = Zero64 => shown = Zero64
            /\ total # Zero64 => Ext(shown, NLimbs + 1) = ExactPct(hit, total)
            /\ GeW(total, hit) => Val(shown) <= 100

====
